---- MODULE Spec2Model ----
(***************************************************************************)
(* Model of the session-token manager (services/auth.ts, AuthService) and  *)
(* of the HTTP request wrapper with its interceptors (services/api.ts).    *)
(*                                                                         *)
(* Granularity.  The browser runs one task at a time and drains the        *)
(* promise continuations a task makes runnable before it takes the next    *)
(* task.  An action of this model is therefore one task: a call made by    *)
(* the UI, or the arrival of one network answer, together with every       *)
(* continuation that runs before the next network answer or UI event.      *)
(* The places where the code really waits for the network (the axios       *)
(* request itself, and the fetch of login / register / googleLogin /       *)
(* refreshAccessToken) are the positions recorded in the state.            *)
(*                                                                         *)
(* Specifications.  SpecApi runs the API client (requests, the two         *)
(* interceptors, the refresh they start) next to the UI's logout and       *)
(* getUser; SpecAuth runs the AuthService calls made by the UI (login,     *)
(* register, googleLogin, refreshAccessToken, logout, getUser); Spec runs  *)
(* both together.  The screens have a specification each, made of the      *)
(* screen's handlers and of the API client or AuthService steps their      *)
(* calls go through: SpecLogin (LoginSignup), SpecTags and SpecAddProduct  *)
(* (AddProduct: the tag editor, and the required fields with the           *)
(* submission), SpecProductDetail and SpecHomeFeed.  SpecUpvote runs the   *)
(* upvote button of ProductDetail alone, SpecUseAuth and SpecUseProducts   *)
(* the hooks, SpecApp the shell that chooses the screen.  SpecApiLive is   *)
(* SpecApi with a server that may answer 401 for ever, under weak          *)
(* fairness of the answers, for the claim that every request settles.      *)
(***************************************************************************)
EXTENDS Integers, FiniteSets, Sequences, TLC

\* ---------------------------------------------------------------- bounds
MaxReq == 2         \* requests issued through the API client
MaxAttempts == 3    \* the server stops answering 401 to a request sent this many times
MaxCalls == 2       \* login / register / googleLogin calls
MaxRefreshCalls == 1 \* direct calls of refreshAccessToken (outside the interceptor)
MaxTextLen == 2     \* characters typed into the tag input

Reqs == 1..MaxReq
Calls == 1..MaxCalls
RefreshCalls == 1..MaxRefreshCalls

\* ---------------------------------------------------------------- values
NULL == "NULL"                      \* JavaScript null / undefined
AccessTokens == {"a1", "a2"}
RefreshTokens == {"r1", "r2"}
Users == {"u1", "u2"}
InvalidJSON == "invalid json"

NullTokens == [null |-> TRUE]       \* this.tokens = null
NoHeader == [scheme |-> "none", token |-> ""]   \* no Authorization header

Truthy(v) == v # NULL /\ v # ""

\* `Bearer ${t}`: a template literal prints null as the text "null"
Bearer(t) == [scheme |-> "Bearer", token |-> IF t = NULL THEN "null" ELSE t]

\* JSON.stringify of a User and JSON.parse of a stored string
JSONstringify(u) == IF u = "u1" THEN "{\"id\":1}" ELSE "{\"id\":2}"

ParseError == "SyntaxError"
JSONparse(s) ==
  IF \E u \in Users : JSONstringify(u) = s
  THEN CHOOSE u \in Users : JSONstringify(u) = s
  ELSE ParseError

Keys == {"access_token", "refresh_token", "user"}

Configs ==
  { [method |-> "GET", url |-> "/products/products/", data |-> NULL],
    [method |-> "POST", url |-> "/products/products/1/comment/", data |-> "text"] }

OtherStatuses == {0, 500}           \* 0: no response at all (network error, timeout)

AuthKinds == {"login", "register", "googleLogin"}

\* the bodies of ok answers of the authentication endpoints (AuthResponse)
AuthResponses ==
  { [message |-> "ok", user |-> "u1", tokens |-> [access |-> "a1", refresh |-> "r1"]],
    [message |-> "ok", user |-> "u2", tokens |-> [access |-> "a2", refresh |-> "r2"]] }

ErrorBodies ==
  { [detail |-> d, error |-> e] :
      d \in {NULL, "Invalid credentials"}, e \in {NULL, "Invalid Google token"} }

\* ---------------------------------------------------------------- state
VARIABLES
  tokens,        \* AuthService.tokens
  user,          \* AuthService.user
  localStorage,  \* window.localStorage, key -> string or NULL when absent
  location,      \* window.location.href
  reqs,          \* requests issued through the axios instance
  calls,         \* login / register / googleLogin calls
  rcalls         \* direct refreshAccessToken calls

vars == <<tokens, user, localStorage, location, reqs, calls, rcalls>>

\* LoginSignup (components/LoginSignup.tsx)
VARIABLES
  isLogin,       \* useState(true): the sign-in form is shown, else the sign-up form
  isLoading,     \* useState(false): disables the submit and the social buttons
  lsOut          \* what the latest task of the component showed and called

lsVars == <<isLogin, isLoading, lsOut>>

\* AddProduct (components/AddProduct.tsx, in LoginSignup.tsx from line 538)
VARIABLES
  tags,          \* useState([]): the tags of the product, in the order added
  currentTag,    \* useState(''): the text of the tag input
  formData,      \* useState({...}): the required fields of the form
  isSubmitting,  \* useState(false): disables the two submit buttons
  draft,         \* the isDraft of the handleSubmit that awaits createProduct
  apOut          \* what the latest task of the component showed and called

apVars == <<tags, currentTag, formData, isSubmitting, draft, apOut>>

\* ProductDetail (components/ProductDetail.tsx)
VARIABLES
  product,       \* useState(null): the product shown
  comments,      \* useState([]): the comments shown, in order
  isUpvoted,     \* useState(false)
  newComment,    \* useState(''): the draft in the comment box
  pdLoading,     \* useState(true): loading
  pdError,       \* useState(null): error
  commentBox,    \* the last render showed the comment box (a session existed)
  closure,       \* request -> the isUpvoted and the draft its handler closed over
  pdOut          \* what the latest task of the component showed and called

pdVars ==
  <<product, comments, isUpvoted, newComment, pdLoading, pdError, commentBox,
    closure, pdOut>>

\* HomeFeed (components/HomeFeed.tsx, in LoginSignup.tsx from line 1066)
VARIABLES
  selectedCategory, \* useState('All')
  products,         \* useState([]): the fetched products, in order
  categories,       \* useState([]): the category buttons with their counts
  hfLoading,        \* useState(true): loading
  hfError,          \* useState(null): error
  fetching          \* the Promise.all the running fetchData awaits

hfVars == <<selectedCategory, products, categories, hfLoading, hfError, fetching>>

\* useAuth (hooks/useAuth.ts)
VARIABLES
  haUser,            \* useState(null): user
  haIsAuthenticated, \* useState(false): isAuthenticated
  haIsLoading,       \* useState(true): isLoading
  haMounted,         \* the mount effect (checkAuth) has run
  haReturned         \* refreshToken call -> what the hook's refreshToken returned

haVars == <<haUser, haIsAuthenticated, haIsLoading, haMounted, haReturned>>

\* App (App.tsx)
VARIABLES
  currentScreen,     \* useState('home')
  isLoggedIn,        \* useState(false)
  appUser,           \* useState(null): user
  showUserMenu,      \* useState(false)
  appMounted,        \* the mount effect (checkAuth) has run
  shown              \* the screen component the latest render returned

appVars == <<currentScreen, isLoggedIn, appUser, showUserMenu, appMounted, shown>>

\* useProducts (hooks/useProducts.ts)
VARIABLES
  upProducts,        \* useState([]): products
  upLoading,         \* useState(false): loading
  upError,           \* useState(null): error
  upIssued           \* the fetchProducts calls in the order issued, each with its outcome

upVars == <<upProducts, upLoading, upError, upIssued>>

uiVars == <<lsVars, apVars, pdVars, hfVars, haVars, appVars, upVars>>

allVars == <<vars, uiVars>>

\* ---------------------------------------------------------------- AuthService
setItem(ls, k, v) == [ls EXCEPT ![k] = v]
removeItem(ls, k) == [ls EXCEPT ![k] = NULL]

loadTokensFromStorage(ls) ==
  IF Truthy(ls["access_token"]) /\ Truthy(ls["refresh_token"])
  THEN [access |-> ls["access_token"], refresh |-> ls["refresh_token"]]
  ELSE NullTokens

getAccessToken(t) ==
  IF t # NullTokens /\ Truthy(t.access) THEN t.access ELSE NULL

getRefreshToken(t) ==
  IF t # NullTokens /\ Truthy(t.refresh) THEN t.refresh ELSE NULL

isAuthenticated(t) == t # NullTokens /\ Truthy(t.access)

\* storeTokens that forgets the refresh token
storeTokens_NoRefresh(ls, t) == setItem(ls, "access_token", t.access)

\* storeTokens: the storage after the call (the memory becomes t)
storeTokens(ls, t) ==
  setItem(setItem(ls, "access_token", t.access), "refresh_token", t.refresh)

\* setUser: the storage after the call (the memory becomes u)
setUser(ls, u) == setItem(ls, "user", JSONstringify(u))

\* getUser without the try / catch around JSON.parse: the error escapes
getUser_NoCatch(u, ls) ==
  IF u # NULL THEN u
  ELSE IF Truthy(ls["user"]) THEN JSONparse(ls["user"]) ELSE NULL

\* getUser: the value of this.user after the call, which is also the result
getUser(u, ls) ==
  IF u # NULL THEN u
  ELSE IF Truthy(ls["user"])
       THEN IF JSONparse(ls["user"]) = ParseError THEN NULL
            ELSE JSONparse(ls["user"])
       ELSE NULL

\* logout that leaves the refresh token in the storage
logout_KeepsRefresh(ls) ==
  removeItem(removeItem(ls, "access_token"), "user")

\* logout that leaves the user in the storage
logout_KeepsUser(ls) ==
  removeItem(removeItem(ls, "access_token"), "refresh_token")

\* logout: the storage after the call (tokens and user become null)
logout(ls) ==
  removeItem(removeItem(removeItem(ls, "access_token"), "refresh_token"), "user")

\* errorData.<field> || '<default>' of login / register / googleLogin
DefaultMessage(kind) ==
  IF kind = "login" THEN "Login failed"
  ELSE IF kind = "register" THEN "Registration failed"
  ELSE "Google login failed"

\* the message read from 'detail' for every endpoint
ErrorMessage_DetailOnly(kind, body) ==
  IF Truthy(body.detail) THEN body.detail ELSE DefaultMessage(kind)

ErrorMessage(kind, body) ==
  IF kind = "googleLogin"
  THEN IF Truthy(body.error) THEN body.error ELSE DefaultMessage(kind)
  ELSE IF Truthy(body.detail) THEN body.detail ELSE DefaultMessage(kind)

\* ---------------------------------------------------------------- initial state
\* an alert: the fixed text and the text appended to it
NoAlert == [text |-> "", detail |-> ""]
Alert(text, detail) == [text |-> text, detail |-> detail]

\* the outputs of one task of a component: the alert shown and the callback
\* props called, in order
NoOut == [alert |-> NoAlert, callbacks |-> <<>>]

NoConfig == [method |-> "", url |-> "", data |-> NULL]
NoResult == [kind |-> "none"]

\* st: idle, inflight (waiting for the server's answer), refreshing (the
\* interceptor waits for the refresh endpoint), resolved, rejected.
\* attempt: how many times the request was sent; auth: the Authorization
\* header of the message in flight (NoHeader when none is in flight);
\* rt: the refresh token the running refresh posted;
\* refreshes: calls of the refresh endpoint made on behalf of the request;
\* outStatus / outAttempt: the answer the caller received.
IdleReq ==
  [st |-> "idle", cfg |-> NoConfig, attempt |-> 0, auth |-> NoHeader,
   rt |-> NULL, refreshes |-> 0, outStatus |-> 0, outAttempt |-> 0]

IdleCall == [st |-> "idle", kind |-> NULL, ret |-> NoResult]

IdleRCall == [st |-> "idle", rt |-> NULL, ret |-> FALSE]

\* AddProduct: the fields handleSubmit requires
RequiredFields == {"productName", "tagline", "description", "category", "website"}

\* ProductDetail: product === null
NoProduct == [loaded |-> FALSE, upvote_count |-> 0]

NoClosure == [isUpvoted |-> FALSE, content |-> <<>>]

\* HomeFeed: no fetchData is waiting.  Otherwise st is "pending", p and c are
\* the getProducts and the getCategories request, done holds the one answered
\* so far and results the products it brought
NoFetch == [st |-> "idle", p |-> 0, c |-> 0, done |-> {}, results |-> <<>>]

Init ==
  /\ localStorage \in
       { [k \in Keys |->
            IF k = "access_token" THEN a ELSE IF k = "refresh_token" THEN r ELSE u] :
         a \in {NULL, "a1"}, r \in {NULL, "r1"},
         u \in {NULL, InvalidJSON, JSONstringify("u1")} }
  /\ tokens = loadTokensFromStorage(localStorage)
  /\ user = NULL
  /\ location = "/"
  /\ reqs = [r \in Reqs |-> IdleReq]
  /\ calls = [c \in Calls |-> IdleCall]
  /\ rcalls = [c \in RefreshCalls |-> IdleRCall]
  /\ isLogin = TRUE
  /\ isLoading = FALSE
  /\ lsOut = NoOut
  /\ tags = <<>>
  /\ currentTag = <<>>
  /\ formData = [f \in RequiredFields |-> ""]
  /\ isSubmitting = FALSE
  /\ draft = FALSE
  /\ apOut = NoOut
  /\ product = NoProduct
  /\ comments = <<>>
  /\ isUpvoted = FALSE
  /\ newComment = <<>>
  /\ pdLoading = TRUE
  /\ pdError = NULL
  /\ commentBox = FALSE
  /\ closure = [r \in Reqs |-> NoClosure]
  /\ pdOut = NoOut
  /\ selectedCategory = "All"
  /\ products = <<>>
  /\ categories = <<>>
  /\ hfLoading = TRUE
  /\ hfError = NULL
  /\ fetching = NoFetch
  /\ haUser = NULL
  /\ haIsAuthenticated = FALSE
  /\ haIsLoading = TRUE
  /\ haMounted = FALSE
  /\ haReturned = [c \in RefreshCalls |-> "nothing"]
  /\ currentScreen = "home"
  /\ isLoggedIn = FALSE
  /\ appUser = NULL
  /\ showUserMenu = FALSE
  /\ appMounted = FALSE
  /\ shown = "HomeFeed"
  /\ upProducts = <<>>
  /\ upLoading = FALSE
  /\ upError = NULL
  /\ upIssued = <<>>

\* ---------------------------------------------------------------- API client
\* request interceptor without the test of the token
requestInterceptor_NoGuard(headers, t) == Bearer(getAccessToken(t))

\* request interceptor: the Authorization header the request leaves with
requestInterceptor(headers, t) ==
  IF Truthy(getAccessToken(t)) THEN Bearer(getAccessToken(t)) ELSE headers

\* the refresh started on every answered error
IsAuthFailure_AnyStatus(status) == status >= 400

\* response interceptor, the test that starts the refresh
IsAuthFailure(status) == status = 401

\* response interceptor, the header written on the request before the retry
retryHeader(t) == Bearer(getAccessToken(t))

\* the token pair with its fields swapped
refreshedTokens_Swapped(access, refreshToken) ==
  [access |-> refreshToken, refresh |-> access]

\* refreshAccessToken, the token pair stored on an ok answer
refreshedTokens(access, refreshToken) == [access |-> access, refresh |-> refreshToken]

\* api.get / post / put / patch / delete: the request passes the request
\* interceptor and is sent
Send(r, cfg) ==
  /\ reqs[r].st = "idle"
  /\ reqs' = [reqs EXCEPT ![r] =
       [@ EXCEPT !.st = "inflight", !.cfg = cfg, !.attempt = 1,
                 !.auth = requestInterceptor(NoHeader, tokens)]]
  /\ UNCHANGED <<tokens, user, localStorage, location, calls, rcalls>>

\* a 2xx answer: the response interceptor hands the response to the caller
RespondOk(r) ==
  /\ reqs[r].st = "inflight"
  /\ reqs' = [reqs EXCEPT ![r] =
       [@ EXCEPT !.st = "resolved", !.auth = NoHeader, !.outStatus = 200,
                 !.outAttempt = reqs[r].attempt]]
  /\ UNCHANGED <<tokens, user, localStorage, location, calls, rcalls>>

\* the error handler with a shared refresh: a 401 answered while another
\* request is refreshing joins that refresh instead of calling the endpoint
RespondError_SharedRefresh(r, status) ==
  /\ reqs[r].st = "inflight"
  /\ status = 401 => reqs[r].attempt < MaxAttempts
  /\ IF IsAuthFailure(status)
     THEN IF getRefreshToken(tokens) = NULL
          THEN /\ tokens' = NullTokens
               /\ user' = NULL
               /\ localStorage' = logout(localStorage)
               /\ location' = "/login"
               /\ reqs' = [reqs EXCEPT ![r] =
                    [@ EXCEPT !.st = "rejected", !.auth = NoHeader,
                              !.outStatus = status, !.outAttempt = reqs[r].attempt]]
          ELSE /\ reqs' = [reqs EXCEPT ![r] =
                    [@ EXCEPT !.st = "refreshing", !.auth = NoHeader,
                              !.rt = getRefreshToken(tokens),
                              !.refreshes =
                                 IF \E q \in Reqs \ {r} : reqs[q].st = "refreshing"
                                 THEN @ ELSE @ + 1]]
               /\ UNCHANGED <<tokens, user, localStorage, location>>
     ELSE /\ reqs' = [reqs EXCEPT ![r] =
               [@ EXCEPT !.st = "rejected", !.auth = NoHeader,
                         !.outStatus = status, !.outAttempt = reqs[r].attempt]]
          /\ UNCHANGED <<tokens, user, localStorage, location>>
  /\ UNCHANGED <<calls, rcalls>>

\* an error answer (status 0: no response): the response interceptor's error
\* handler up to the await of refreshAccessToken, and past it when
\* refreshAccessToken returns false without sending anything
RespondError(r, status) ==
  /\ reqs[r].st = "inflight"
  /\ status = 401 => reqs[r].attempt < MaxAttempts
  /\ IF IsAuthFailure(status)
     THEN IF getRefreshToken(tokens) = NULL
          THEN /\ tokens' = NullTokens
               /\ user' = NULL
               /\ localStorage' = logout(localStorage)
               /\ location' = "/login"
               /\ reqs' = [reqs EXCEPT ![r] =
                    [@ EXCEPT !.st = "rejected", !.auth = NoHeader,
                              !.outStatus = status, !.outAttempt = reqs[r].attempt]]
          ELSE /\ reqs' = [reqs EXCEPT ![r] =
                    [@ EXCEPT !.st = "refreshing", !.auth = NoHeader,
                              !.rt = getRefreshToken(tokens), !.refreshes = @ + 1]]
               /\ UNCHANGED <<tokens, user, localStorage, location>>
     ELSE /\ reqs' = [reqs EXCEPT ![r] =
               [@ EXCEPT !.st = "rejected", !.auth = NoHeader,
                         !.outStatus = status, !.outAttempt = reqs[r].attempt]]
          /\ UNCHANGED <<tokens, user, localStorage, location>>
  /\ UNCHANGED <<calls, rcalls>>

\* the refresh endpoint answers ok with a new access token: refreshAccessToken
\* stores it and returns true, the interceptor re-issues the request
InterceptorRefreshOk(r, access) ==
  /\ reqs[r].st = "refreshing"
  /\ tokens' = refreshedTokens(access, reqs[r].rt)
  /\ localStorage' = storeTokens(localStorage, tokens')
  /\ reqs' = [reqs EXCEPT ![r] =
       [@ EXCEPT !.st = "inflight", !.attempt = @ + 1, !.rt = NULL,
                 !.auth = requestInterceptor(retryHeader(tokens'), tokens')]]
  /\ UNCHANGED <<user, location, calls, rcalls>>

\* the refresh endpoint answers non-ok, or the fetch fails: refreshAccessToken
\* returns false, the interceptor logs out, navigates and rejects
InterceptorRefreshFail(r, why) ==
  /\ reqs[r].st = "refreshing"
  /\ why \in {"non-ok", "network error"}
  /\ tokens' = NullTokens
  /\ user' = NULL
  /\ localStorage' = logout(localStorage)
  /\ location' = "/login"
  /\ reqs' = [reqs EXCEPT ![r] =
       [@ EXCEPT !.st = "rejected", !.rt = NULL, !.outStatus = 401,
                 !.outAttempt = reqs[r].attempt]]
  /\ UNCHANGED <<calls, rcalls>>

\* ---------------------------------------------------------------- AuthService calls
\* login / register / googleLogin up to the await of fetch
AuthStart(c, kind) ==
  /\ calls[c].st = "idle"
  /\ calls' = [calls EXCEPT ![c] = [@ EXCEPT !.st = "inflight", !.kind = kind]]
  /\ UNCHANGED <<tokens, user, localStorage, location, reqs, rcalls>>

\* an ok answer: storeTokens, setUser, return data
AuthOk(c, data) ==
  /\ calls[c].st = "inflight"
  /\ tokens' = data.tokens
  /\ user' = data.user
  /\ localStorage' = setUser(storeTokens(localStorage, data.tokens), data.user)
  /\ calls' = [calls EXCEPT ![c] =
       [@ EXCEPT !.st = "returned", !.ret = [kind |-> "value", body |-> data]]]
  /\ UNCHANGED <<location, reqs, rcalls>>

\* a non-ok answer: throw new Error(errorData.<field> || '<default>')
AuthFail(c, errorData) ==
  /\ calls[c].st = "inflight"
  /\ calls' = [calls EXCEPT ![c] =
       [@ EXCEPT !.st = "thrown",
                 !.ret = [kind |-> "Error",
                          message |-> ErrorMessage(calls[c].kind, errorData)]]]
  /\ UNCHANGED <<tokens, user, localStorage, location, reqs, rcalls>>

\* no answer: the rejection of fetch leaves the call as it is
AuthNetworkError(c) ==
  /\ calls[c].st = "inflight"
  /\ calls' = [calls EXCEPT ![c] =
       [@ EXCEPT !.st = "thrown",
                 !.ret = [kind |-> "TypeError", message |-> "Failed to fetch"]]]
  /\ UNCHANGED <<tokens, user, localStorage, location, reqs, rcalls>>

\* refreshAccessToken called directly, up to the await of fetch or to the
\* early return
RefreshStart(c) ==
  /\ rcalls[c].st = "idle"
  /\ IF getRefreshToken(tokens) = NULL
     THEN rcalls' = [rcalls EXCEPT ![c] = [@ EXCEPT !.st = "returned", !.ret = FALSE]]
     ELSE rcalls' = [rcalls EXCEPT ![c] =
            [@ EXCEPT !.st = "inflight", !.rt = getRefreshToken(tokens)]]
  /\ UNCHANGED <<tokens, user, localStorage, location, reqs, calls>>

\* the refresh endpoint answers ok: storeTokens, return true
RefreshOk(c, access) ==
  /\ rcalls[c].st = "inflight"
  /\ tokens' = refreshedTokens(access, rcalls[c].rt)
  /\ localStorage' = storeTokens(localStorage, tokens')
  /\ rcalls' = [rcalls EXCEPT ![c] = [@ EXCEPT !.st = "returned", !.ret = TRUE]]
  /\ UNCHANGED <<user, location, reqs, calls>>

\* the refresh endpoint answers non-ok, or the fetch fails: return false
RefreshFail(c, why) ==
  /\ rcalls[c].st = "inflight"
  /\ why \in {"non-ok", "network error"}
  /\ rcalls' = [rcalls EXCEPT ![c] = [@ EXCEPT !.st = "returned", !.ret = FALSE]]
  /\ UNCHANGED <<tokens, user, localStorage, location, reqs, calls>>

\* authService.logout(), called by the UI
Logout ==
  /\ tokens' = NullTokens
  /\ user' = NULL
  /\ localStorage' = logout(localStorage)
  /\ UNCHANGED <<location, reqs, calls, rcalls>>

\* authService.getUser(), called by the UI: it caches the parsed user
GetUser ==
  /\ user' = getUser(user, localStorage)
  /\ UNCHANGED <<tokens, localStorage, location, reqs, calls, rcalls>>

\* ---------------------------------------------------------------- LoginSignup
\* the callbacks of a successful sign-in, in the order of the calls
SignedIn == <<"onLogin(true)", "onNavigate(home)">>

\* handleSubmit without the comparison
PasswordsMatch_Unchecked(password, confirmPassword) == TRUE

\* handleSubmit, the comparison of the password with its confirmation
PasswordsMatch(password, confirmPassword) == password = confirmPassword

Passwords == {"p1", "p2"}

\* the text that precedes the message of a failed call in its alert
FailedText(kind) ==
  IF kind = "login" THEN "Login failed: "
  ELSE IF kind = "register" THEN "Signup failed: "
  ELSE "Google sign-in failed: "

\* the tab toggle: setIsLogin(b)
SetIsLogin(b) ==
  /\ isLogin # b
  /\ isLogin' = b
  /\ lsOut' = NoOut
  /\ UNCHANGED <<vars, isLoading>>

\* handleSubmit on the sign-in form, up to the await of authService.login;
\* the submit button is disabled while isLoading
SubmitLogin(c) ==
  /\ isLogin /\ ~isLoading
  /\ AuthStart(c, "login")
  /\ isLoading' = TRUE
  /\ lsOut' = NoOut
  /\ UNCHANGED isLogin

\* handleSubmit on the sign-up form, up to the await of authService.register
\* or to the early return of the password check
SubmitSignup(c, password, confirmPassword) ==
  /\ ~isLogin /\ ~isLoading
  /\ IF PasswordsMatch(password, confirmPassword)
     THEN /\ AuthStart(c, "register")
          /\ isLoading' = TRUE
          /\ lsOut' = NoOut
     ELSE /\ isLoading' = FALSE
          /\ lsOut' = [alert |-> Alert("Passwords do not match. Please try again.", ""),
                       callbacks |-> <<>>]
          /\ UNCHANGED vars
  /\ UNCHANGED isLogin

\* handleGoogleSignIn, the callback of Google Identity Services, up to the
\* await of authService.googleLogin or to the throw on a missing credential
GoogleSignIn(c, credential) ==
  /\ IF Truthy(credential)
     THEN /\ AuthStart(c, "googleLogin")
          /\ isLoading' = TRUE
          /\ lsOut' = NoOut
     ELSE /\ isLoading' = FALSE
          /\ lsOut' = [alert |-> Alert(FailedText("googleLogin"),
                                       "No credential received from Google"),
                       callbacks |-> <<>>]
          /\ UNCHANGED vars
  /\ UNCHANGED isLogin

\* the awaited call returns: onLogin(true), onNavigate("home"), finally
SignInReturns(c, data) ==
  /\ AuthOk(c, data)
  /\ isLoading' = FALSE
  /\ lsOut' = [alert |-> NoAlert, callbacks |-> SignedIn]
  /\ UNCHANGED isLogin

\* the callbacks of a sign-in called after the try / catch, failed or not
SignInThrows_CallsBack(c, errorData) ==
  /\ AuthFail(c, errorData)
  /\ isLoading' = FALSE
  /\ lsOut' = [alert |-> Alert(FailedText(calls[c].kind), calls'[c].ret.message),
               callbacks |-> SignedIn]
  /\ UNCHANGED isLogin

\* the awaited call throws an Error: the catch shows its message, finally
SignInThrows(c, errorData) ==
  /\ AuthFail(c, errorData)
  /\ isLoading' = FALSE
  /\ lsOut' = [alert |-> Alert(FailedText(calls[c].kind), calls'[c].ret.message),
               callbacks |-> <<>>]
  /\ UNCHANGED isLogin

\* the fetch of the awaited call fails: the TypeError is an Error too
SignInNetworkError(c) ==
  /\ AuthNetworkError(c)
  /\ isLoading' = FALSE
  /\ lsOut' = [alert |-> Alert(FailedText(calls[c].kind), calls'[c].ret.message),
               callbacks |-> <<>>]
  /\ UNCHANGED isLogin

NextLogin ==
  \/ \E b \in BOOLEAN : SetIsLogin(b) /\ UNCHANGED <<apVars, pdVars, hfVars, haVars, appVars, upVars>>
  \/ \E c \in Calls : SubmitLogin(c) /\ UNCHANGED <<apVars, pdVars, hfVars, haVars, appVars, upVars>>
  \/ \E c \in Calls, p \in Passwords, cp \in Passwords :
       SubmitSignup(c, p, cp) /\ UNCHANGED <<apVars, pdVars, hfVars, haVars, appVars, upVars>>
  \/ \E c \in Calls, credential \in {NULL, "g1"} :
       GoogleSignIn(c, credential) /\ UNCHANGED <<apVars, pdVars, hfVars, haVars, appVars, upVars>>
  \/ \E c \in Calls, data \in AuthResponses :
       SignInReturns(c, data) /\ UNCHANGED <<apVars, pdVars, hfVars, haVars, appVars, upVars>>
  \/ \E c \in Calls, errorData \in ErrorBodies :
       SignInThrows(c, errorData) /\ UNCHANGED <<apVars, pdVars, hfVars, haVars, appVars, upVars>>
  \/ \E c \in Calls : SignInNetworkError(c) /\ UNCHANGED <<apVars, pdVars, hfVars, haVars, appVars, upVars>>

SpecLogin == Init /\ [][NextLogin]_allVars

\* ---------------------------------------------------------------- apiService
\* A component awaits apiService.get / post, which awaits the request of the
\* axios instance.  One answer either lets the caller continue after its
\* await, or makes its catch run, or leaves it waiting (the interceptor
\* refreshes and re-issues).

\* a 2xx answer: the caller continues with response.data
Fulfils(r) == RespondOk(r)

\* the request is rejected: the caller's catch runs
Rejects(r) ==
  \/ \E status \in {401} \cup OtherStatuses :
       RespondError(r, status) /\ reqs'[r].st = "rejected"
  \/ \E why \in {"non-ok", "network error"} : InterceptorRefreshFail(r, why)

\* a 401 answer that starts a refresh, or the refresh answered ok: the caller
\* keeps waiting
KeepsWaiting(r) ==
  \/ RespondError(r, 401) /\ reqs'[r].st = "refreshing"
  \/ \E access \in AccessTokens : InterceptorRefreshOk(r, access)

\* the requests of the components are numbered in the order they are made
NextRequest(r) == reqs[r].st = "idle" /\ \A q \in 1..(r - 1) : reqs[q].st # "idle"

\* ---------------------------------------------------------------- AddProduct
\* Texts are sequences of characters, so that trim is computed
Chars == {" ", "a"}
Texts == UNION { [1..n -> Chars] : n \in 0..MaxTextLen }

RECURSIVE trimStart(_)
trimStart(s) == IF s # <<>> /\ Head(s) = " " THEN trimStart(Tail(s)) ELSE s

RECURSIVE trimEnd(_)
trimEnd(s) ==
  IF s # <<>> /\ s[Len(s)] = " " THEN trimEnd(SubSeq(s, 1, Len(s) - 1)) ELSE s

\* String.prototype.trim
trim(s) == trimEnd(trimStart(s))

\* Array.prototype.includes
includes(array, x) == \E i \in 1..Len(array) : array[i] = x

\* Array.prototype.filter(tag => tag !== tagToRemove)
filter(array, tagToRemove) == SelectSeq(array, LAMBDA tag : tag # tagToRemove)

\* onChange of the tag input
SetCurrentTag(value) ==
  /\ currentTag' = value
  /\ apOut' = NoOut
  /\ UNCHANGED <<vars, tags, formData, isSubmitting, draft>>

\* addTag that does not look for the tag in the list
addTag_NoIncludes ==
  /\ IF trim(currentTag) # <<>>
     THEN /\ tags' = Append(tags, trim(currentTag))
          /\ currentTag' = <<>>
     ELSE UNCHANGED <<tags, currentTag>>
  /\ apOut' = NoOut
  /\ UNCHANGED <<vars, formData, isSubmitting, draft>>

\* addTag: the Add button, or Enter in the tag input
addTag ==
  /\ IF trim(currentTag) # <<>> /\ ~includes(tags, trim(currentTag))
     THEN /\ tags' = Append(tags, trim(currentTag))
          /\ currentTag' = <<>>
     ELSE UNCHANGED <<tags, currentTag>>
  /\ apOut' = NoOut
  /\ UNCHANGED <<vars, formData, isSubmitting, draft>>

\* removeTag: the remove button of a tag shown
removeTag(tagToRemove) ==
  /\ includes(tags, tagToRemove)
  /\ tags' = filter(tags, tagToRemove)
  /\ apOut' = NoOut
  /\ UNCHANGED <<vars, currentTag, formData, isSubmitting, draft>>

\* onNavigate is App's setCurrentScreen: the screen the component asks for
\* replaces the component, which takes no further event
apMounted == apOut.callbacks = <<>>

\* handleInputChange, for the required fields
handleInputChange(field, value) ==
  /\ apMounted
  /\ formData' = [formData EXCEPT ![field] = value]
  /\ apOut' = NoOut
  /\ UNCHANGED <<vars, tags, currentTag, isSubmitting, draft>>

\* the request of productService.createProduct
createProduct ==
  [method |-> "POST", url |-> "/products/products/", data |-> "FormData"]

\* handleSubmit that does not ask authService
handleSubmit_NoAuthGuard(r, isDraft) ==
  /\ apMounted
  /\ ~isSubmitting
  /\ IF \E f \in RequiredFields : formData[f] = ""
     THEN /\ apOut' = [alert |-> Alert("Please fill in all required fields.", ""),
                       callbacks |-> <<>>]
          /\ UNCHANGED <<vars, isSubmitting, draft>>
     ELSE /\ NextRequest(r)
          /\ Send(r, createProduct)
          /\ isSubmitting' = TRUE
          /\ draft' = isDraft
          /\ apOut' = NoOut
  /\ UNCHANGED <<tags, currentTag, formData>>

\* handleSubmit up to the await of createProduct (both buttons are disabled
\* while isSubmitting)
handleSubmit(r, isDraft) ==
  /\ apMounted
  /\ ~isSubmitting
  /\ IF ~isAuthenticated(tokens)
     THEN /\ apOut' = [alert |-> NoAlert, callbacks |-> <<"onNavigate(login)">>]
          /\ UNCHANGED <<vars, isSubmitting, draft>>
     ELSE IF \E f \in RequiredFields : formData[f] = ""
     THEN /\ apOut' = [alert |-> Alert("Please fill in all required fields.", ""),
                       callbacks |-> <<>>]
          /\ UNCHANGED <<vars, isSubmitting, draft>>
     ELSE /\ NextRequest(r)
          /\ Send(r, createProduct)
          /\ isSubmitting' = TRUE
          /\ draft' = isDraft
          /\ apOut' = NoOut
  /\ UNCHANGED <<tags, currentTag, formData>>

\* handleSubmit after the await: createProduct returned
SubmitReturns(r) ==
  /\ Fulfils(r)
  /\ isSubmitting' = FALSE
  /\ draft' = FALSE
  /\ apOut' = [alert |-> Alert(IF draft
                               THEN "Product saved as draft!"
                               ELSE "Product submitted successfully!", ""),
               callbacks |-> <<"onNavigate(home)">>]
  /\ UNCHANGED <<tags, currentTag, formData>>

\* the text handleSubmit's catch appends: error.message, or the answer's body
\* when there is one
SubmitErrorMessage(status) ==
  IF status = 0 THEN "Network Error" ELSE "JSON.stringify(response.data)"

\* handleSubmit's catch and finally: createProduct threw
SubmitThrows(r) ==
  /\ Rejects(r)
  /\ isSubmitting' = FALSE
  /\ draft' = FALSE
  /\ apOut' = [alert |-> Alert("Failed to submit product: ",
                               SubmitErrorMessage(reqs'[r].outStatus)),
               callbacks |-> <<>>]
  /\ UNCHANGED <<tags, currentTag, formData>>

\* the tag editor of the form; handleSubmit only copies tags into the payload
NextTags ==
  \/ \E value \in Texts : SetCurrentTag(value) /\ UNCHANGED <<lsVars, pdVars, hfVars, haVars, appVars, upVars>>
  \/ addTag /\ UNCHANGED <<lsVars, pdVars, hfVars, haVars, appVars, upVars>>
  \/ \E tagToRemove \in Texts : removeTag(tagToRemove) /\ UNCHANGED <<lsVars, pdVars, hfVars, haVars, appVars, upVars>>

SpecTags == Init /\ [][NextTags]_allVars

\* the required fields and the submission
NextAddProduct ==
  \/ \E field \in RequiredFields, value \in {"", "x"} :
       handleInputChange(field, value) /\ UNCHANGED <<lsVars, pdVars, hfVars, haVars, appVars, upVars>>
  \/ \E r \in Reqs, isDraft \in BOOLEAN :
       handleSubmit(r, isDraft) /\ UNCHANGED <<lsVars, pdVars, hfVars, haVars, appVars, upVars>>
  \/ \E r \in Reqs : SubmitReturns(r) /\ UNCHANGED <<lsVars, pdVars, hfVars, haVars, appVars, upVars>>
  \/ \E r \in Reqs : SubmitThrows(r) /\ UNCHANGED <<lsVars, pdVars, hfVars, haVars, appVars, upVars>>
  \/ \E r \in Reqs : KeepsWaiting(r) /\ UNCHANGED uiVars

SpecAddProduct == Init /\ [][NextAddProduct]_allVars

\* ---------------------------------------------------------------- ProductDetail
getProduct == [method |-> "GET", url |-> "/products/products/9/", data |-> NULL]

upvoteProduct ==
  [method |-> "POST", url |-> "/products/products/9/upvote/", data |-> NULL]

\* the content posted is kept in closure, as a text
commentProduct ==
  [method |-> "POST", url |-> "/products/products/9/comment/", data |-> "content"]

\* answers of the product endpoint
ProductResponses ==
  { [upvote_count |-> 25, is_upvoted |-> FALSE, comments |-> << <<"a">> >>],
    [upvote_count |-> 1, is_upvoted |-> TRUE, comments |-> <<>>] }

\* what is typed into the comment box
Drafts == { <<>>, <<" ">>, <<" ", "a">> }

\* onNavigate is App's setCurrentScreen: the screen the component asks for
\* replaces the component; answers that arrive later find it unmounted
pdMounted == pdOut.callbacks = <<>>

\* the render past the loading and the error page
pdShown == pdMounted /\ ~pdLoading /\ pdError = NULL /\ product.loaded

\* the mount effect: fetchProductData up to the await of getProduct
fetchProductData(r) ==
  /\ pdMounted
  /\ pdLoading
  /\ \A q \in Reqs : reqs[q].cfg.url # getProduct.url
  /\ NextRequest(r)
  /\ Send(r, getProduct)
  /\ pdLoading' = TRUE
  /\ pdError' = NULL
  /\ pdOut' = NoOut
  /\ UNCHANGED <<product, comments, isUpvoted, newComment, commentBox, closure>>

\* fetchProductData after the await
FetchReturns(r, productResponse) ==
  /\ reqs[r].cfg.url = getProduct.url
  /\ Fulfils(r)
  /\ product' = [loaded |-> TRUE, upvote_count |-> productResponse.upvote_count]
  /\ comments' = productResponse.comments
  /\ isUpvoted' = productResponse.is_upvoted
  /\ pdLoading' = FALSE
  /\ commentBox' = (pdError = NULL /\ isAuthenticated(tokens'))
  /\ pdOut' = NoOut
  /\ UNCHANGED <<newComment, pdError, closure>>

\* fetchProductData's catch and finally
FetchThrows(r) ==
  /\ reqs[r].cfg.url = getProduct.url
  /\ Rejects(r)
  /\ pdError' = "Failed to load product details"
  /\ pdLoading' = FALSE
  /\ pdOut' = NoOut
  /\ UNCHANGED <<product, comments, isUpvoted, newComment, commentBox, closure>>

\* onChange of the comment box, which the render shows to a signed-in user
SetNewComment(value) ==
  /\ pdShown
  /\ commentBox
  /\ value # newComment
  /\ newComment' = value
  /\ commentBox' = isAuthenticated(tokens)
  /\ pdOut' = NoOut
  /\ UNCHANGED <<vars, product, comments, isUpvoted, pdLoading, pdError, closure>>

\* handleUpvote that sends the request whatever authService says
handleUpvote_NoAuthGuard(r) ==
  /\ pdShown
  /\ NextRequest(r)
  /\ Send(r, upvoteProduct)
  /\ closure' = [closure EXCEPT ![r] = [isUpvoted |-> isUpvoted, content |-> <<>>]]
  /\ pdOut' = NoOut
  /\ UNCHANGED <<product, comments, isUpvoted, newComment, pdLoading, pdError, commentBox>>

\* handleUpvote up to the await of upvoteProduct
handleUpvote(r) ==
  /\ pdShown
  /\ IF ~isAuthenticated(tokens)
     THEN /\ pdOut' = [alert |-> NoAlert, callbacks |-> <<"onNavigate(login)">>]
          /\ UNCHANGED <<vars, closure>>
     ELSE /\ NextRequest(r)
          /\ Send(r, upvoteProduct)
          /\ closure' = [closure EXCEPT ![r] = [isUpvoted |-> isUpvoted, content |-> <<>>]]
          /\ pdOut' = NoOut
  /\ UNCHANGED <<product, comments, isUpvoted, newComment, pdLoading, pdError, commentBox>>

\* handleUpvote after the await, with the isUpvoted of the render it was
\* called in
UpvoteReturns(r) ==
  /\ reqs[r].cfg.url = upvoteProduct.url
  /\ Fulfils(r)
  /\ IF pdMounted
     THEN /\ isUpvoted' = ~closure[r].isUpvoted
          /\ product' = [product EXCEPT !.upvote_count =
               IF closure[r].isUpvoted THEN @ - 1 ELSE @ + 1]
          /\ commentBox' = isAuthenticated(tokens')
          /\ pdOut' = NoOut
     ELSE UNCHANGED <<isUpvoted, product, commentBox, pdOut>>
  /\ UNCHANGED <<comments, newComment, pdLoading, pdError, closure>>

\* the catch of handleUpvote that flips the flag all the same
UpvoteThrows_Flips(r) ==
  /\ reqs[r].cfg.url = upvoteProduct.url
  /\ Rejects(r)
  /\ pdOut' = [pdOut EXCEPT !.alert = Alert("Failed to upvote product", "")]
  /\ isUpvoted' = ~closure[r].isUpvoted
  /\ UNCHANGED <<product, comments, newComment, pdLoading, pdError, commentBox, closure>>

\* handleUpvote's catch
UpvoteThrows(r) ==
  /\ reqs[r].cfg.url = upvoteProduct.url
  /\ Rejects(r)
  /\ pdOut' = [pdOut EXCEPT !.alert = Alert("Failed to upvote product", "")]
  /\ UNCHANGED <<product, comments, isUpvoted, newComment, pdLoading, pdError,
                 commentBox, closure>>

\* handleComment up to the await of commentProduct (the Post button belongs
\* to the comment box)
handleComment(r) ==
  /\ pdShown
  /\ commentBox
  /\ IF ~isAuthenticated(tokens)
     THEN /\ pdOut' = [alert |-> NoAlert, callbacks |-> <<"onNavigate(login)">>]
          /\ UNCHANGED <<vars, closure>>
     ELSE IF trim(newComment) = <<>>
     THEN UNCHANGED <<vars, closure, pdOut>>
     ELSE /\ NextRequest(r)
          /\ Send(r, commentProduct)
          /\ closure' = [closure EXCEPT ![r] =
               [isUpvoted |-> isUpvoted, content |-> newComment]]
          /\ pdOut' = NoOut
  /\ UNCHANGED <<product, comments, isUpvoted, newComment, pdLoading, pdError, commentBox>>

\* handleComment after the await: the answer is the comment posted
CommentReturns(r) ==
  /\ reqs[r].cfg.url = commentProduct.url
  /\ Fulfils(r)
  /\ IF pdMounted
     THEN /\ comments' = Append(comments, closure[r].content)
          /\ newComment' = <<>>
          /\ commentBox' = isAuthenticated(tokens')
          /\ pdOut' = NoOut
     ELSE UNCHANGED <<comments, newComment, commentBox, pdOut>>
  /\ UNCHANGED <<product, isUpvoted, pdLoading, pdError, closure>>

\* handleComment's catch
CommentThrows(r) ==
  /\ reqs[r].cfg.url = commentProduct.url
  /\ Rejects(r)
  /\ pdOut' = [pdOut EXCEPT !.alert = Alert("Failed to post comment", "")]
  /\ UNCHANGED <<product, comments, isUpvoted, newComment, pdLoading, pdError,
                 commentBox, closure>>

NextProductDetail ==
  \/ \E r \in Reqs : fetchProductData(r) /\ UNCHANGED <<lsVars, apVars, hfVars, haVars, appVars, upVars>>
  \/ \E r \in Reqs, productResponse \in ProductResponses :
       FetchReturns(r, productResponse) /\ UNCHANGED <<lsVars, apVars, hfVars, haVars, appVars, upVars>>
  \/ \E r \in Reqs : FetchThrows(r) /\ UNCHANGED <<lsVars, apVars, hfVars, haVars, appVars, upVars>>
  \/ \E value \in Drafts : SetNewComment(value) /\ UNCHANGED <<lsVars, apVars, hfVars, haVars, appVars, upVars>>
  \/ \E r \in Reqs : handleUpvote(r) /\ UNCHANGED <<lsVars, apVars, hfVars, haVars, appVars, upVars>>
  \/ \E r \in Reqs : UpvoteReturns(r) /\ UNCHANGED <<lsVars, apVars, hfVars, haVars, appVars, upVars>>
  \/ \E r \in Reqs : UpvoteThrows(r) /\ UNCHANGED <<lsVars, apVars, hfVars, haVars, appVars, upVars>>
  \/ \E r \in Reqs : handleComment(r) /\ UNCHANGED <<lsVars, apVars, hfVars, haVars, appVars, upVars>>
  \/ \E r \in Reqs : CommentReturns(r) /\ UNCHANGED <<lsVars, apVars, hfVars, haVars, appVars, upVars>>
  \/ \E r \in Reqs : CommentThrows(r) /\ UNCHANGED <<lsVars, apVars, hfVars, haVars, appVars, upVars>>
  \/ \E r \in Reqs : KeepsWaiting(r) /\ UNCHANGED uiVars

SpecProductDetail == Init /\ [][NextProductDetail]_allVars

\* fetchProductData is over: nothing refers to its request any more, and the
\* next request of the screen takes its place
ForgetFetch(r) ==
  /\ reqs[r].cfg.url = getProduct.url
  /\ reqs[r].st \in {"resolved", "rejected"}
  /\ reqs' = [reqs EXCEPT ![r] = IdleReq]
  /\ UNCHANGED <<tokens, user, localStorage, location, calls, rcalls>>
  /\ UNCHANGED pdVars

\* the upvote button alone, so that every request after the fetch is an
\* upvote
NextUpvote ==
  \/ \E r \in Reqs :
       fetchProductData(r) /\ UNCHANGED <<lsVars, apVars, hfVars, haVars, appVars, upVars>>
  \/ \E r \in Reqs, productResponse \in ProductResponses :
       FetchReturns(r, productResponse) /\ UNCHANGED <<lsVars, apVars, hfVars, haVars, appVars, upVars>>
  \/ \E r \in Reqs : FetchThrows(r) /\ UNCHANGED <<lsVars, apVars, hfVars, haVars, appVars, upVars>>
  \/ \E r \in Reqs : ForgetFetch(r) /\ UNCHANGED <<lsVars, apVars, hfVars, haVars, appVars, upVars>>
  \/ \E r \in Reqs : handleUpvote(r) /\ UNCHANGED <<lsVars, apVars, hfVars, haVars, appVars, upVars>>
  \/ \E r \in Reqs : UpvoteReturns(r) /\ UNCHANGED <<lsVars, apVars, hfVars, haVars, appVars, upVars>>
  \/ \E r \in Reqs : UpvoteThrows(r) /\ UNCHANGED <<lsVars, apVars, hfVars, haVars, appVars, upVars>>
  \/ \E r \in Reqs : KeepsWaiting(r) /\ UNCHANGED uiVars

SpecUpvote == Init /\ [][NextUpvote]_allVars

\* ---------------------------------------------------------------- HomeFeed
\* JavaScript values that === compares: a string, or an object
Str(s) == [type |-> "string", value |-> s]
Obj(fields) == [type |-> "object", value |-> fields]

\* x === y for a string and an object of the answer: values of different
\* types are never equal, strings are equal by their characters
StrictEquals(x, y) == x.type = y.type /\ x.type = "string" /\ x.value = y.value

getProducts == [method |-> "GET", url |-> "/products/products/", data |-> NULL]

getCategories == [method |-> "GET", url |-> "/products/categories/", data |-> NULL]

\* a product of the answer: its id and its category: { name: string }
Product(id, name) == [id |-> id, category |-> Obj([name |-> name])]

\* answers of the products endpoint
ProductsResponses ==
  { [results |-> <<>>],
    [results |-> <<Product(1, "SaaS"), Product(2, "AI Tools")>>],
    [results |-> <<Product(1, "AI Tools"), Product(2, "SaaS"), Product(3, "SaaS")>>] }

\* the answer of the categories endpoint
CategoriesResponse == [results |-> <<[name |-> "SaaS"], [name |-> "AI Tools"]>>]

\* the categories set by fetchData's catch
FallbackCategories ==
  << [name |-> "All", count |-> 0], [name |-> "AI Tools", count |-> 0],
     [name |-> "SaaS", count |-> 0], [name |-> "Mobile Apps", count |-> 0],
     [name |-> "Design Tools", count |-> 0] >>

\* categoryCounts[name] || 0
categoryCount(results, name) ==
  Cardinality({ i \in 1..Len(results) : results[i].category.value.name = name })

categoriesWithCounts(results, cats) ==
  << [name |-> "All", count |-> Len(results)] >> \o
  [ i \in 1..Len(cats) |->
      [name |-> cats[i].name, count |-> categoryCount(results, cats[i].name)] ]

\* the request as api.get leaves it, past the request interceptor
Issued(cfg) ==
  [IdleReq EXCEPT !.st = "inflight", !.cfg = cfg, !.attempt = 1,
                  !.auth = requestInterceptor(NoHeader, tokens)]

\* a settled request is done with: its slot serves a later request of the
\* screen
Free(r) == reqs[r].st \in {"idle", "resolved", "rejected"}

\* the two lowest free slots
TwoFree(p, c) ==
  /\ Free(p) /\ Free(c) /\ p < c
  /\ \A q \in 1..(c - 1) : q # p => ~Free(q)

\* fetchData up to the await of Promise.all: the mount effect, or Try Again
\* on the error page
fetchData(p, c) ==
  /\ \/ hfLoading /\ fetching.st = "idle"
     \/ ~hfLoading /\ hfError # NULL
  /\ TwoFree(p, c)
  /\ reqs' = [reqs EXCEPT ![p] = Issued(getProducts), ![c] = Issued(getCategories)]
  /\ hfLoading' = TRUE
  /\ hfError' = NULL
  /\ fetching' = [st |-> "pending", p |-> p, c |-> c, done |-> {}, results |-> <<>>]
  /\ UNCHANGED <<tokens, user, localStorage, location, calls, rcalls>>
  /\ UNCHANGED <<selectedCategory, products, categories>>

\* one of the two requests is answered ok and Promise.all waits for the other
FetchDataWaits(r, productsResponse) ==
  /\ fetching.st = "pending"
  /\ r \in {fetching.p, fetching.c}
  /\ fetching.done = {}
  /\ Fulfils(r)
  /\ fetching' = [fetching EXCEPT !.done = {r},
                    !.results = IF r = fetching.p THEN productsResponse.results ELSE @]
  /\ UNCHANGED <<selectedCategory, products, categories, hfLoading, hfError>>

\* the second of the two requests is answered ok: fetchData after the await
FetchDataReturns(r, productsResponse) ==
  /\ fetching.st = "pending"
  /\ r \in {fetching.p, fetching.c}
  /\ fetching.done = {fetching.p, fetching.c} \ {r}
  /\ Fulfils(r)
  /\ LET results == IF r = fetching.p THEN productsResponse.results
                    ELSE fetching.results
     IN  /\ products' = results
         /\ categories' = categoriesWithCounts(results, CategoriesResponse.results)
  /\ hfLoading' = FALSE
  /\ fetching' = NoFetch
  /\ UNCHANGED <<selectedCategory, hfError>>

\* one of the two requests is rejected: Promise.all rejects at once, and
\* fetchData's catch and finally run
FetchDataThrows(r) ==
  /\ fetching.st = "pending"
  /\ r \in {fetching.p, fetching.c}
  /\ Rejects(r)
  /\ hfError' = "Failed to load products. Please try again."
  /\ products' = <<>>
  /\ categories' = FallbackCategories
  /\ hfLoading' = FALSE
  /\ fetching' = NoFetch
  /\ UNCHANGED selectedCategory

\* the answer of a request whose Promise.all has rejected already
AnswerIgnored(r) ==
  /\ ~(fetching.st = "pending" /\ r \in {fetching.p, fetching.c})
  /\ Fulfils(r) \/ Rejects(r)
  /\ UNCHANGED hfVars

\* a category button
setSelectedCategory(name) ==
  /\ ~hfLoading
  /\ \E i \in 1..Len(categories) : categories[i].name = name
  /\ selectedCategory' = name
  /\ UNCHANGED <<vars, products, categories, hfLoading, hfError, fetching>>

\* filteredProducts, as every render computes it
filteredProducts ==
  IF selectedCategory = "All" THEN products
  ELSE SelectSeq(products,
         LAMBDA item : StrictEquals(item.category, Str(selectedCategory)))

\* Array.prototype.slice(start)
slice(array, start) == SubSeq(array, start + 1, Len(array))

\* the featured card: products[0]
featured ==
  IF hfError = NULL /\ Len(products) > 0 /\ selectedCategory = "All"
  THEN <<products[1]>> ELSE <<>>

\* the cards of the products grid
grid ==
  IF hfError = NULL /\ Len(products) > 0
  THEN slice(filteredProducts, IF selectedCategory = "All" THEN 1 ELSE 0)
  ELSE <<>>

\* the products on the page, in order
displayed == IF hfLoading THEN <<>> ELSE featured \o grid

NextHomeFeed ==
  \/ \E p \in Reqs, c \in Reqs : fetchData(p, c) /\ UNCHANGED <<lsVars, apVars, pdVars, haVars, appVars, upVars>>
  \/ \E r \in Reqs, productsResponse \in ProductsResponses :
       FetchDataWaits(r, productsResponse) /\ UNCHANGED <<lsVars, apVars, pdVars, haVars, appVars, upVars>>
  \/ \E r \in Reqs, productsResponse \in ProductsResponses :
       FetchDataReturns(r, productsResponse) /\ UNCHANGED <<lsVars, apVars, pdVars, haVars, appVars, upVars>>
  \/ \E r \in Reqs : FetchDataThrows(r) /\ UNCHANGED <<lsVars, apVars, pdVars, haVars, appVars, upVars>>
  \/ \E r \in Reqs : AnswerIgnored(r) /\ UNCHANGED <<lsVars, apVars, pdVars, haVars, appVars, upVars>>
  \/ \E name \in {"All", "SaaS", "AI Tools", "Mobile Apps", "Design Tools"} :
       setSelectedCategory(name) /\ UNCHANGED <<lsVars, apVars, pdVars, haVars, appVars, upVars>>
  \/ \E r \in Reqs : KeepsWaiting(r) /\ UNCHANGED uiVars

SpecHomeFeed == Init /\ [][NextHomeFeed]_allVars

\* ---------------------------------------------------------------- useAuth
\* the mount effect: checkAuth reads the service once
checkAuth ==
  /\ ~haMounted
  /\ haMounted' = TRUE
  /\ haIsAuthenticated' = isAuthenticated(tokens)
  /\ user' = getUser(user, localStorage)
  /\ haUser' = user'
  /\ haIsLoading' = FALSE
  /\ UNCHANGED <<tokens, localStorage, location, reqs, calls, rcalls, haReturned>>

\* login / register / googleLogin of the hook, up to the await of the service
haLogin(c, kind) ==
  /\ haMounted
  /\ AuthStart(c, kind)
  /\ haIsLoading' = TRUE
  /\ UNCHANGED <<haUser, haIsAuthenticated, haMounted, haReturned>>

\* the service returned the response: setUser, setIsAuthenticated(true), finally
haLoginReturns(c, data) ==
  /\ haMounted
  /\ AuthOk(c, data)
  /\ haUser' = data.user
  /\ haIsAuthenticated' = TRUE
  /\ haIsLoading' = FALSE
  /\ UNCHANGED <<haMounted, haReturned>>

\* the service threw: the error is thrown on, finally
haLoginThrows(c, errorData) ==
  /\ haMounted
  /\ AuthFail(c, errorData)
  /\ haIsLoading' = FALSE
  /\ UNCHANGED <<haUser, haIsAuthenticated, haMounted, haReturned>>

haLoginNetworkError(c) ==
  /\ haMounted
  /\ AuthNetworkError(c)
  /\ haIsLoading' = FALSE
  /\ UNCHANGED <<haUser, haIsAuthenticated, haMounted, haReturned>>

\* logout of the hook
haLogout ==
  /\ haMounted
  /\ Logout
  /\ haUser' = NULL
  /\ haIsAuthenticated' = FALSE
  /\ UNCHANGED <<haIsLoading, haMounted, haReturned>>

\* refreshToken of the hook, up to the await of the fetch of the service; with
\* no refresh token the service returns false at once and the hook logs out
haRefreshToken(c) ==
  /\ haMounted
  /\ rcalls[c].st = "idle"
  /\ IF getRefreshToken(tokens) = NULL
     THEN /\ rcalls' = [rcalls EXCEPT ![c] = [@ EXCEPT !.st = "returned", !.ret = FALSE]]
          /\ tokens' = NullTokens
          /\ user' = NULL
          /\ localStorage' = logout(localStorage)
          /\ haUser' = NULL
          /\ haIsAuthenticated' = FALSE
          /\ haReturned' = [haReturned EXCEPT ![c] = "false"]
          /\ UNCHANGED <<location, reqs, calls, haIsLoading, haMounted>>
     ELSE /\ RefreshStart(c)
          /\ UNCHANGED haVars

\* the service returned true: the hook returns it
haRefreshReturns(c, access) ==
  /\ haMounted
  /\ RefreshOk(c, access)
  /\ haReturned' = [haReturned EXCEPT ![c] = "true"]
  /\ UNCHANGED <<haUser, haIsAuthenticated, haIsLoading, haMounted>>

\* a failing refresh after which the hook stays signed in
haRefreshFails_NoLogout(c, why) ==
  /\ haMounted
  /\ RefreshFail(c, why)
  /\ haReturned' = [haReturned EXCEPT ![c] = "false"]
  /\ UNCHANGED <<haUser, haIsAuthenticated, haIsLoading, haMounted>>

\* the service returned false: logout(), return false
haRefreshFails(c, why) ==
  /\ haMounted
  /\ rcalls[c].st = "inflight"
  /\ why \in {"non-ok", "network error"}
  /\ rcalls' = [rcalls EXCEPT ![c] = [@ EXCEPT !.st = "returned", !.ret = FALSE]]
  /\ tokens' = NullTokens
  /\ user' = NULL
  /\ localStorage' = logout(localStorage)
  /\ haUser' = NULL
  /\ haIsAuthenticated' = FALSE
  /\ haReturned' = [haReturned EXCEPT ![c] = "false"]
  /\ UNCHANGED <<location, reqs, calls, haIsLoading, haMounted>>

NextUseAuth ==
  \/ checkAuth /\ UNCHANGED <<lsVars, apVars, pdVars, hfVars, appVars, upVars>>
  \/ \E c \in Calls, kind \in AuthKinds :
       haLogin(c, kind) /\ UNCHANGED <<lsVars, apVars, pdVars, hfVars, appVars, upVars>>
  \/ \E c \in Calls, data \in AuthResponses :
       haLoginReturns(c, data) /\ UNCHANGED <<lsVars, apVars, pdVars, hfVars, appVars, upVars>>
  \/ \E c \in Calls, errorData \in ErrorBodies :
       haLoginThrows(c, errorData) /\ UNCHANGED <<lsVars, apVars, pdVars, hfVars, appVars, upVars>>
  \/ \E c \in Calls :
       haLoginNetworkError(c) /\ UNCHANGED <<lsVars, apVars, pdVars, hfVars, appVars, upVars>>
  \/ haLogout /\ UNCHANGED <<lsVars, apVars, pdVars, hfVars, appVars, upVars>>
  \/ \E c \in RefreshCalls :
       haRefreshToken(c) /\ UNCHANGED <<lsVars, apVars, pdVars, hfVars, appVars, upVars>>
  \/ \E c \in RefreshCalls, access \in AccessTokens :
       haRefreshReturns(c, access) /\ UNCHANGED <<lsVars, apVars, pdVars, hfVars, appVars, upVars>>
  \/ \E c \in RefreshCalls, why \in {"non-ok", "network error"} :
       haRefreshFails(c, why) /\ UNCHANGED <<lsVars, apVars, pdVars, hfVars, appVars, upVars>>

SpecUseAuth == Init /\ [][NextUseAuth]_allVars

\* ---------------------------------------------------------------- App
Screens == {"home", "product-detail", "add-product", "profile", "login"}

\* the component of a screen
Component(screen) ==
  IF screen = "product-detail" THEN "ProductDetail"
  ELSE IF screen = "add-product" THEN "AddProduct"
  ELSE IF screen = "profile" THEN "UserProfile"
  ELSE IF screen = "login" THEN "LoginSignup"
  ELSE "HomeFeed"

\* renderScreen that returns the component of every screen
renderScreen_NoGuard(screen, loggedIn) ==
  [currentScreen |-> screen, shown |-> Component(screen)]

\* renderScreen: 'add-product' and 'profile' without a session call
\* setCurrentScreen('login') and return null, and the render that follows
\* returns LoginSignup.  The result is the screen and the component shown
\* when the task ends
renderScreen(screen, loggedIn) ==
  IF screen \in {"add-product", "profile"} /\ ~loggedIn
  THEN [currentScreen |-> "login", shown |-> Component("login")]
  ELSE [currentScreen |-> screen, shown |-> Component(screen)]

\* the mount effect: checkAuth
appCheckAuth ==
  /\ ~appMounted
  /\ appMounted' = TRUE
  /\ isLoggedIn' = isAuthenticated(tokens)
  /\ user' = getUser(user, localStorage)
  /\ appUser' = user'
  /\ currentScreen' = renderScreen(currentScreen, isLoggedIn').currentScreen
  /\ shown' = renderScreen(currentScreen, isLoggedIn').shown
  /\ UNCHANGED <<tokens, localStorage, location, reqs, calls, rcalls, showUserMenu>>

\* setCurrentScreen(screen): the logo and the buttons of the header, Profile
\* in the user menu, and the onNavigate of the screen shown.  The click
\* closes the user menu: Profile calls setShowUserMenu(false), and a click
\* anywhere else reaches handleClickOutside
setCurrentScreen(screen) ==
  /\ appMounted
  /\ showUserMenu' = FALSE
  /\ currentScreen' = renderScreen(screen, isLoggedIn).currentScreen
  /\ shown' = renderScreen(screen, isLoggedIn).shown
  /\ UNCHANGED <<vars, isLoggedIn, appUser, appMounted>>

\* the avatar button, shown with a session: setShowUserMenu(!showUserMenu);
\* Settings and a click outside the menu close it too
toggleUserMenu ==
  /\ appMounted
  /\ isLoggedIn
  /\ showUserMenu' = ~showUserMenu
  /\ UNCHANGED <<vars, currentScreen, isLoggedIn, appUser, appMounted, shown>>

\* Log out in the user menu: handleLogout(), setShowUserMenu(false)
handleLogout ==
  /\ appMounted
  /\ isLoggedIn /\ showUserMenu
  /\ Logout
  /\ isLoggedIn' = FALSE
  /\ appUser' = NULL
  /\ showUserMenu' = FALSE
  /\ currentScreen' = renderScreen("home", FALSE).currentScreen
  /\ shown' = renderScreen("home", FALSE).shown
  /\ UNCHANGED appMounted

\* LoginSignup, shown, starts a sign-in of the service
appSignIn(c, kind) ==
  /\ appMounted
  /\ shown = "LoginSignup"
  /\ AuthStart(c, kind)
  /\ UNCHANGED appVars

\* the sign-in returns to LoginSignup, which calls onLogin(true) and
\* onNavigate("home"): handleLogin(true), setCurrentScreen('home')
handleLogin(c, data) ==
  /\ appMounted
  /\ AuthOk(c, data)
  /\ isLoggedIn' = TRUE
  /\ appUser' = getUser(user', localStorage')
  /\ currentScreen' = renderScreen("home", TRUE).currentScreen
  /\ shown' = renderScreen("home", TRUE).shown
  /\ UNCHANGED <<showUserMenu, appMounted>>

\* the sign-in throws in LoginSignup: no callback is called
appSignInThrows(c, errorData) ==
  /\ appMounted
  /\ AuthFail(c, errorData)
  /\ UNCHANGED appVars

NextApp ==
  \/ appCheckAuth /\ UNCHANGED <<lsVars, apVars, pdVars, hfVars, haVars, upVars>>
  \/ \E screen \in Screens :
       setCurrentScreen(screen) /\ UNCHANGED <<lsVars, apVars, pdVars, hfVars, haVars, upVars>>
  \/ toggleUserMenu /\ UNCHANGED <<lsVars, apVars, pdVars, hfVars, haVars, upVars>>
  \/ handleLogout /\ UNCHANGED <<lsVars, apVars, pdVars, hfVars, haVars, upVars>>
  \/ \E c \in Calls, kind \in AuthKinds :
       appSignIn(c, kind) /\ UNCHANGED <<lsVars, apVars, pdVars, hfVars, haVars, upVars>>
  \/ \E c \in Calls, data \in AuthResponses :
       handleLogin(c, data) /\ UNCHANGED <<lsVars, apVars, pdVars, hfVars, haVars, upVars>>
  \/ \E c \in Calls, errorData \in ErrorBodies :
       appSignInThrows(c, errorData) /\ UNCHANGED <<lsVars, apVars, pdVars, hfVars, haVars, upVars>>

SpecApp == Init /\ [][NextApp]_allVars

\* ---------------------------------------------------------------- useProducts
\* the bodies productService.getProducts resolves with: the page as HomeFeed
\* reads it, with results at the top, and a body that carries the page in
\* data, where fetchProducts looks for it
HookResponses ==
  ProductsResponses \cup { [data |-> [results |-> <<Product(1, "SaaS")>>]] }

\* response.data?.results || []
dataResults(response) ==
  IF "data" \in DOMAIN response
  THEN IF "results" \in DOMAIN response.data /\ response.data.results # <<>>
       THEN response.data.results
       ELSE <<>>
  ELSE <<>>

\* err.message of the error the axios instance rejects with
ErrorText(status) ==
  IF status = 0 THEN "Network Error"
  ELSE IF status = 401 THEN "Request failed with status code 401"
  ELSE "Request failed with status code 500"

\* fetchProducts up to the await of getProducts
fetchProducts(r) ==
  /\ NextRequest(r)
  /\ Send(r, getProducts)
  /\ upLoading' = TRUE
  /\ upError' = NULL
  /\ upIssued' = Append(upIssued,
       [req |-> r, outcome |-> "pending", products |-> <<>>, error |-> NULL])
  /\ UNCHANGED upProducts

\* the position of the call that awaits request r
CallOf(r) == CHOOSE i \in 1..Len(upIssued) : upIssued[i].req = r

\* fetchProducts after the await: setProducts, finally
FetchProductsReturns(r, response) ==
  /\ \E i \in 1..Len(upIssued) : upIssued[i].req = r
  /\ Fulfils(r)
  /\ upProducts' = dataResults(response)
  /\ upLoading' = FALSE
  /\ upIssued' = [upIssued EXCEPT ![CallOf(r)] =
       [@ EXCEPT !.outcome = "returned", !.products = dataResults(response)]]
  /\ UNCHANGED upError

\* fetchProducts' catch and finally
FetchProductsThrows(r) ==
  /\ \E i \in 1..Len(upIssued) : upIssued[i].req = r
  /\ Rejects(r)
  /\ upError' = ErrorText(reqs'[r].outStatus)
  /\ upProducts' = <<>>
  /\ upLoading' = FALSE
  /\ upIssued' = [upIssued EXCEPT ![CallOf(r)] =
       [@ EXCEPT !.outcome = "thrown", !.error = ErrorText(reqs'[r].outStatus)]]

NextUseProducts ==
  \/ \E r \in Reqs :
       fetchProducts(r) /\ UNCHANGED <<lsVars, apVars, pdVars, hfVars, haVars, appVars>>
  \/ \E r \in Reqs, response \in HookResponses :
       FetchProductsReturns(r, response) /\ UNCHANGED <<lsVars, apVars, pdVars, hfVars, haVars, appVars>>
  \/ \E r \in Reqs :
       FetchProductsThrows(r) /\ UNCHANGED <<lsVars, apVars, pdVars, hfVars, haVars, appVars>>
  \/ \E r \in Reqs : KeepsWaiting(r) /\ UNCHANGED uiVars

SpecUseProducts == Init /\ [][NextUseProducts]_allVars

\* ---------------------------------------------------------------- specification
NextApi ==
  \/ \E r \in Reqs, cfg \in Configs : Send(r, cfg) /\ UNCHANGED uiVars
  \/ \E r \in Reqs : RespondOk(r) /\ UNCHANGED uiVars
  \/ \E r \in Reqs, status \in OtherStatuses \cup {401} :
       RespondError(r, status) /\ UNCHANGED uiVars
  \/ \E r \in Reqs, access \in AccessTokens :
       InterceptorRefreshOk(r, access) /\ UNCHANGED uiVars
  \/ \E r \in Reqs, why \in {"non-ok", "network error"} :
       InterceptorRefreshFail(r, why) /\ UNCHANGED uiVars
  \/ Logout /\ UNCHANGED uiVars
  \/ GetUser /\ UNCHANGED uiVars

NextAuth ==
  \/ \E c \in Calls, kind \in AuthKinds : AuthStart(c, kind) /\ UNCHANGED uiVars
  \/ \E c \in Calls, data \in AuthResponses : AuthOk(c, data) /\ UNCHANGED uiVars
  \/ \E c \in Calls, errorData \in ErrorBodies :
       AuthFail(c, errorData) /\ UNCHANGED uiVars
  \/ \E c \in Calls : AuthNetworkError(c) /\ UNCHANGED uiVars
  \/ \E c \in RefreshCalls : RefreshStart(c) /\ UNCHANGED uiVars
  \/ \E c \in RefreshCalls, access \in AccessTokens :
       RefreshOk(c, access) /\ UNCHANGED uiVars
  \/ \E c \in RefreshCalls, why \in {"non-ok", "network error"} :
       RefreshFail(c, why) /\ UNCHANGED uiVars
  \/ Logout /\ UNCHANGED uiVars
  \/ GetUser /\ UNCHANGED uiVars

Next == NextApi \/ NextAuth

SpecApi == Init /\ [][NextApi]_vars

SpecAuth == Init /\ [][NextAuth]_vars

Spec == Init /\ [][Next]_vars

\* ---------------------------------------------------------------- a server without end
\* Above, a request is answered 401 fewer than MaxAttempts times, which
\* keeps the count of its sends finite.  Here the server may go on: once a
\* request has been sent MaxAttempts times the count stays where it is.

\* the error handler for a 401 answered to a request sent MaxAttempts times
RespondErrorAgain(r) ==
  /\ reqs[r].st = "inflight"
  /\ reqs[r].attempt = MaxAttempts
  /\ IF getRefreshToken(tokens) = NULL
     THEN /\ tokens' = NullTokens
          /\ user' = NULL
          /\ localStorage' = logout(localStorage)
          /\ location' = "/login"
          /\ reqs' = [reqs EXCEPT ![r] =
               [@ EXCEPT !.st = "rejected", !.auth = NoHeader,
                         !.outStatus = 401, !.outAttempt = reqs[r].attempt]]
     ELSE /\ reqs' = [reqs EXCEPT ![r] =
               [@ EXCEPT !.st = "refreshing", !.auth = NoHeader,
                         !.rt = getRefreshToken(tokens),
                         !.refreshes = IF @ < MaxAttempts THEN @ + 1 ELSE @]]
          /\ UNCHANGED <<tokens, user, localStorage, location>>
  /\ UNCHANGED <<calls, rcalls>>

\* the refresh of such a request is answered ok: the request is sent again
InterceptorRefreshOkAgain(r, access) ==
  /\ reqs[r].st = "refreshing"
  /\ reqs[r].attempt = MaxAttempts
  /\ tokens' = refreshedTokens(access, reqs[r].rt)
  /\ localStorage' = storeTokens(localStorage, tokens')
  /\ reqs' = [reqs EXCEPT ![r] =
       [@ EXCEPT !.st = "inflight", !.rt = NULL,
                 !.auth = requestInterceptor(retryHeader(tokens'), tokens')]]
  /\ UNCHANGED <<user, location, calls, rcalls>>

\* the answers the HTTP call of request r, or its refresh call, can get
Answer(r) ==
  \/ RespondOk(r)
  \/ \E status \in OtherStatuses \cup {401} : RespondError(r, status)
  \/ RespondErrorAgain(r)
  \/ \E access \in AccessTokens :
       reqs[r].attempt < MaxAttempts /\ InterceptorRefreshOk(r, access)
  \/ \E access \in AccessTokens : InterceptorRefreshOkAgain(r, access)
  \/ \E why \in {"non-ok", "network error"} : InterceptorRefreshFail(r, why)

NextApiLive ==
  \/ \E r \in Reqs, cfg \in Configs : Send(r, cfg) /\ UNCHANGED uiVars
  \/ \E r \in Reqs : RespondOk(r) /\ UNCHANGED uiVars
  \/ \E r \in Reqs, status \in OtherStatuses \cup {401} :
       RespondError(r, status) /\ UNCHANGED uiVars
  \/ \E r \in Reqs : RespondErrorAgain(r) /\ UNCHANGED uiVars
  \/ \E r \in Reqs, access \in AccessTokens :
       reqs[r].attempt < MaxAttempts /\ InterceptorRefreshOk(r, access) /\ UNCHANGED uiVars
  \/ \E r \in Reqs, access \in AccessTokens :
       InterceptorRefreshOkAgain(r, access) /\ UNCHANGED uiVars
  \/ \E r \in Reqs, why \in {"non-ok", "network error"} :
       InterceptorRefreshFail(r, why) /\ UNCHANGED uiVars

\* every HTTP call, and every refresh call, gets an answer in the end
SpecApiLive ==
  /\ Init
  /\ [][NextApiLive]_allVars
  /\ \A r \in Reqs : WF_allVars(Answer(r) /\ UNCHANGED uiVars)

\* ---------------------------------------------------------------- claims
Settled(q) == q.st \in {"resolved", "rejected"}

\* C1: for each request at most one refresh is made on its behalf and the
\* request is re-issued at most once (retry-once).
C1_RetryOnce ==
  \A r \in Reqs : reqs[r].refreshes <= 1 /\ reqs[r].attempt <= 2

\* C2: when a request is answered 401 and the refresh succeeds, the same
\* request is re-issued with Authorization 'Bearer <a>', <a> the access token
\* that refresh obtained, and the caller receives the outcome of the re-issued
\* request, never that of an earlier attempt.
C2_ReissueWithNewToken ==
  [][\A r \in Reqs :
       /\ \A a \in AccessTokens :
            InterceptorRefreshOk(r, a) =>
              /\ reqs'[r].st = "inflight"
              /\ reqs'[r].cfg = reqs[r].cfg
              /\ reqs'[r].attempt = reqs[r].attempt + 1
              /\ reqs'[r].auth = [scheme |-> "Bearer", token |-> a]
       /\ (reqs[r].attempt > 1 /\ RespondOk(r)) =>
            /\ reqs'[r].st = "resolved"
            /\ reqs'[r].outStatus = 200
            /\ reqs'[r].outAttempt = reqs[r].attempt
       /\ \A s \in OtherStatuses :
            (reqs[r].attempt > 1 /\ RespondError(r, s)) =>
              /\ reqs'[r].st = "rejected"
              /\ reqs'[r].outStatus = s
              /\ reqs'[r].outAttempt = reqs[r].attempt
       /\ Settled(reqs'[r]) => reqs'[r].outAttempt = reqs'[r].attempt
    ]_vars

\* C2 witness: a re-issued request was answered and its caller has the answer
C2_Witness ==
  \E r \in Reqs :
    /\ reqs[r].st = "resolved"
    /\ reqs[r].attempt = 2
    /\ reqs[r].outAttempt = 2
    /\ reqs[r].refreshes = 1

\* the refresh started for request r fails in this step: no refresh token is
\* held, or the refresh endpoint answers non-ok, or its fetch fails
RefreshFailsFor(r) ==
  \/ RespondError(r, 401) /\ getRefreshToken(tokens) = NULL
  \/ \E why \in {"non-ok", "network error"} : InterceptorRefreshFail(r, why)

\* C3: when a request is answered 401 and the refresh fails, the tokens and
\* the user are removed from memory and from localStorage, the location is
\* '/login', the request is not re-issued and its caller is rejected with the
\* error of the 401 answer.
C3_RefreshFailureLogsOut ==
  [][\A r \in Reqs :
       RefreshFailsFor(r) =>
         /\ tokens' = NullTokens
         /\ user' = NULL
         /\ \A k \in Keys : localStorage'[k] = NULL
         /\ location' = "/login"
         /\ reqs'[r].attempt = reqs[r].attempt
         /\ reqs'[r].st = "rejected"
         /\ reqs'[r].outStatus = 401
         /\ reqs'[r].outAttempt = reqs[r].attempt
    ]_vars

\* C3 witness: a refresh that was posted failed, the caller was rejected, and
\* the credentials that were held are gone
C3_Witness ==
  \E r \in Reqs :
    /\ reqs[r].st = "rejected"
    /\ reqs[r].outStatus = 401
    /\ reqs[r].refreshes = 1
    /\ location = "/login"
    /\ tokens = NullTokens

\* C4: every 401 answered while a refresh token is held starts its own call of
\* the refresh endpoint, whatever refreshes are already running, and the
\* answer of one request's refresh moves no other request.
C4_UncoordinatedRefresh ==
  [][\A r \in Reqs :
       /\ (RespondError(r, 401) /\ getRefreshToken(tokens) # NULL) =>
            /\ reqs'[r].st = "refreshing"
            /\ reqs'[r].refreshes = reqs[r].refreshes + 1
            /\ reqs'[r].rt = getRefreshToken(tokens)
       /\ \A a \in AccessTokens :
            InterceptorRefreshOk(r, a) =>
              \A q \in Reqs \ {r} : reqs'[q] = reqs[q]
       /\ reqs[r].st = "refreshing" =>
            reqs[r].refreshes = reqs[r].attempt
    ]_vars

\* C4 witness: two requests wait for their own refresh at the same time
C4_Witness ==
  \E r, q \in Reqs :
    /\ r # q
    /\ reqs[r].st = "refreshing" /\ reqs[r].refreshes = 1
    /\ reqs[q].st = "refreshing" /\ reqs[q].refreshes = 1

\* C5: a request that fails with a status other than 401, or without a
\* response, is rejected with that error; no refresh, no re-issue, no
\* navigation, no change of the credentials.
C5_OtherErrorsAreTerminal ==
  [][\A r \in Reqs, s \in OtherStatuses :
       RespondError(r, s) =>
         /\ reqs'[r].st = "rejected"
         /\ reqs'[r].outStatus = s
         /\ reqs'[r].outAttempt = reqs[r].attempt
         /\ reqs'[r].refreshes = reqs[r].refreshes
         /\ reqs'[r].attempt = reqs[r].attempt
         /\ UNCHANGED <<tokens, user, localStorage, location>>
    ]_vars

\* C5 witness: a request was rejected without a response while tokens are held
C5_Witness ==
  \E r \in Reqs :
    /\ reqs[r].st = "rejected"
    /\ reqs[r].outStatus = 0
    /\ tokens # NullTokens

C7_LoginStoresSession ==
  [][\A c \in Calls, d \in AuthResponses :
       AuthOk(c, d) =>
         /\ getAccessToken(tokens') = d.tokens.access
         /\ getRefreshToken(tokens') = d.tokens.refresh
         /\ user' = d.user
         /\ getUser(user', localStorage') = d.user
         /\ localStorage'["access_token"] = d.tokens.access
         /\ localStorage'["refresh_token"] = d.tokens.refresh
         /\ JSONparse(localStorage'["user"]) = d.user
         /\ isAuthenticated(tokens')
         /\ calls'[c].st = "returned"
         /\ calls'[c].ret = [kind |-> "value", body |-> d]
    ]_vars

\* C7 witness: a googleLogin returned the second session over other stored data
C7_Witness ==
  \E c \in Calls :
    /\ calls[c].st = "returned"
    /\ calls[c].kind = "googleLogin"
    /\ tokens = [access |-> "a2", refresh |-> "r2"]
    /\ localStorage["refresh_token"] = "r2"
    /\ user = "u2"

C9_RefreshUsesStoredToken ==
  [][\A c \in RefreshCalls :
       /\ (RefreshStart(c) /\ localStorage["refresh_token"] # NULL) =>
            /\ rcalls'[c].st = "inflight"
            /\ rcalls'[c].rt = localStorage["refresh_token"]
       /\ \A a \in AccessTokens :
            RefreshOk(c, a) =>
              /\ localStorage'["access_token"] = a
              /\ rcalls'[c].ret = TRUE
    ]_vars

\* C10: after logout the three keys are absent from localStorage,
\* getAccessToken(), getRefreshToken() and getUser() return null and
\* isAuthenticated() is false.
C10_LogoutClears ==
  [][Logout =>
       /\ \A k \in Keys : localStorage'[k] = NULL
       /\ getAccessToken(tokens') = NULL
       /\ getRefreshToken(tokens') = NULL
       /\ getUser(user', localStorage') = NULL
       /\ ~isAuthenticated(tokens')
    ]_vars

\* C10 witness: a login had returned its session and nothing of it is left
C10_Witness ==
  /\ \E c \in Calls : calls[c].st = "returned"
  /\ tokens = NullTokens
  /\ user = NULL
  /\ \A k \in Keys : localStorage[k] = NULL

\* C11: in every reachable state getAccessToken() and getRefreshToken() return
\* what localStorage holds under 'access_token' and 'refresh_token' (null when
\* absent) and isAuthenticated() is true exactly when an access token is stored.
C11_ReadsReflectStorage ==
  /\ getAccessToken(tokens) = localStorage["access_token"]
  /\ getRefreshToken(tokens) = localStorage["refresh_token"]
  /\ isAuthenticated(tokens) <=> localStorage["access_token"] # NULL

\* C12: getUser() never throws; it returns the user parsed from the key 'user'
\* when the key holds valid JSON, null when the key is absent and null when
\* the key holds text that is not valid JSON.
C12_GetUserNeverThrows ==
  [][GetUser =>
       /\ user' # ParseError
       /\ localStorage["user"] = NULL => user' = NULL
       /\ localStorage["user"] = InvalidJSON => user' = NULL
       /\ \A u \in Users :
            localStorage["user"] = JSONstringify(u) => user' = u
    ]_vars

\* C12 witness: getUser has read the stored user (no login has set it) 
C12_Witness ==
  /\ user = "u1"
  /\ localStorage["user"] = JSONstringify("u1")
  /\ \A c \in Calls : calls[c].st = "idle"

\* C13: LoginSignup calls authService.register only when the password and its
\* confirmation are equal; on a mismatch no request is sent, onLogin and
\* onNavigate are not called and the loading flag is false.
C13_RegisterOnlyOnMatch ==
  [][/\ \A c \in Calls, p \in Passwords, cp \in Passwords :
          (p # cp /\ SubmitSignup(c, p, cp)) =>
            /\ calls' = calls
            /\ lsOut'.callbacks = <<>>
            /\ isLoading' = FALSE
     /\ \A c \in Calls :
          (calls[c].st = "idle" /\ calls'[c].kind = "register") =>
            \E p \in Passwords : SubmitSignup(c, p, p)
    ]_allVars

\* C13 witness: the sign-up form was submitted with a mismatch
C13_Witness ==
  /\ ~isLogin
  /\ lsOut.alert = [text |-> "Passwords do not match. Please try again.", detail |-> ""]
  /\ ~isLoading
  /\ \A c \in Calls : calls[c].st = "idle"

\* C14: LoginSignup calls onLogin(true), then onNavigate('home'), exactly when
\* the call it made succeeded; when the call fails an alert with the error
\* message is shown and neither callback is called.
C14_CallbacksOnlyOnSuccess ==
  [][/\ \A c \in Calls :
          (calls[c].st = "inflight" /\ calls'[c].st = "returned") =>
            /\ lsOut'.callbacks = <<"onLogin(true)", "onNavigate(home)">>
            /\ lsOut'.alert = NoAlert
     /\ \A c \in Calls :
          (calls[c].st = "inflight" /\ calls'[c].st = "thrown") =>
            /\ lsOut'.callbacks = <<>>
            /\ lsOut'.alert.text # ""
            /\ lsOut'.alert.detail = calls'[c].ret.message
     /\ (lsOut' # lsOut /\ lsOut'.callbacks # <<>>) =>
          \E c \in Calls : calls[c].st = "inflight" /\ calls'[c].st = "returned"
    ]_allVars

\* C14 witness: a register call returned and the callbacks were called
C14_Witness ==
  \E c \in Calls :
    /\ calls[c].st = "returned"
    /\ calls[c].kind = "register"
    /\ lsOut.callbacks = <<"onLogin(true)", "onNavigate(home)">>

\* C15: the loading flag of LoginSignup is true as long as an authentication
\* call started from the screen is in flight and false once every such call
\* has completed.
C15_LoadingWhileInFlight ==
  isLoading <=> \E c \in Calls : calls[c].st = "inflight"

\* C16: AddProduct.handleSubmit sends createProduct only when the session is
\* authenticated and the five required fields are all non-empty; without a
\* session it calls onNavigate('login') and sends nothing; with a session and
\* an empty required field it sends nothing and does not navigate.
C16_SubmitGuards ==
  [][ /\ (\E r \in Reqs : reqs[r].st = "idle" /\ reqs'[r].st = "inflight")
           => /\ isAuthenticated(tokens)
              /\ \A f \in RequiredFields : formData[f] # ""
      /\ \A r \in Reqs, isDraft \in BOOLEAN :
           handleSubmit(r, isDraft) /\ ~isAuthenticated(tokens)
             => reqs' = reqs /\ apOut'.callbacks = <<"onNavigate(login)">>
      /\ \A r \in Reqs, isDraft \in BOOLEAN :
           /\ handleSubmit(r, isDraft)
           /\ isAuthenticated(tokens)
           /\ \E f \in RequiredFields : formData[f] = ""
           => reqs' = reqs /\ apOut'.callbacks = <<>> /\ apOut'.alert # NoAlert
    ]_allVars

\* a complete form was submitted without a session: nothing was sent and the
\* component asked for the login screen
C16_Witness ==
  /\ ~isAuthenticated(tokens)
  /\ \A f \in RequiredFields : formData[f] # ""
  /\ apOut.callbacks = <<"onNavigate(login)">>
  /\ \A r \in Reqs : reqs[r].st = "idle"

NoDuplicates(array) ==
  \A i, j \in 1..Len(array) : array[i] = array[j] => i = j

\* C17: the tag list never holds a tag twice, nor an empty tag, nor a tag
\* with leading or trailing whitespace; addTag with a blank input, or with an
\* input whose trimmed text is in the list, leaves the list as it is;
\* removeTag(t) takes t out and keeps the other tags in their order.
C17_TagList ==
  /\ [](/\ NoDuplicates(tags)
        /\ \A i \in 1..Len(tags) : tags[i] # <<>> /\ trim(tags[i]) = tags[i])
  /\ [][ /\ addTag /\ (trim(currentTag) = <<>> \/ includes(tags, trim(currentTag)))
           => tags' = tags
         /\ \A t \in Texts :
              removeTag(t) =>
                \E i \in 1..Len(tags) :
                  /\ tags[i] = t
                  /\ tags' = SubSeq(tags, 1, i - 1) \o SubSeq(tags, i + 1, Len(tags))
       ]_allVars

\* two tags are listed and the input holds, padded, one of them
C17_Witness ==
  /\ Len(tags) = 2
  /\ currentTag # trim(currentTag)
  /\ includes(tags, trim(currentTag))

\* the React state of ProductDetail
pdState == <<product, comments, isUpvoted, newComment, pdLoading, pdError>>

\* C18: in ProductDetail, handleUpvote and handleComment called without a
\* session send no request, leave the component's state as it is and call
\* onNavigate('login'); an upvote or a comment is only ever sent with a
\* session.
C18_SignedOutGoesToLogin ==
  [][ /\ \A r \in Reqs :
           handleUpvote(r) /\ ~isAuthenticated(tokens)
             => /\ reqs' = reqs
                /\ pdState' = pdState
                /\ pdOut'.callbacks = <<"onNavigate(login)">>
      /\ \A r \in Reqs :
           handleComment(r) /\ ~isAuthenticated(tokens)
             => /\ reqs' = reqs
                /\ pdState' = pdState
                /\ pdOut'.callbacks = <<"onNavigate(login)">>
      /\ \A r \in Reqs :
           /\ reqs[r].st = "idle"
           /\ reqs'[r].st = "inflight"
           /\ reqs'[r].cfg.url \in {upvoteProduct.url, commentProduct.url}
           => isAuthenticated(tokens)
    ]_allVars

\* the comment box was rendered for a session that has ended since, and a
\* click sent the user to the login screen
C18_Witness ==
  /\ ~isAuthenticated(tokens)
  /\ commentBox
  /\ trim(newComment) # <<>>
  /\ pdOut.callbacks = <<"onNavigate(login)">>
  /\ \A r \in Reqs : reqs[r].cfg.url # commentProduct.url

\* C19: in ProductDetail, when the upvote call fails isUpvoted and the
\* upvote count stay as they are and the alert says 'Failed to upvote
\* product'; when the comment call fails the comment list and the draft stay
\* as they are and the alert says 'Failed to post comment'; no comment
\* request carries a blank content.
C19_FailuresChangeNothing ==
  /\ [][ \A r \in Reqs :
           reqs[r].st \in {"inflight", "refreshing"} /\ reqs'[r].st = "rejected"
           => /\ reqs[r].cfg.url = upvoteProduct.url
                   => /\ isUpvoted' = isUpvoted
                      /\ product' = product
                      /\ pdOut'.alert = Alert("Failed to upvote product", "")
              /\ reqs[r].cfg.url = commentProduct.url
                   => /\ comments' = comments
                      /\ newComment' = newComment
                      /\ pdOut'.alert = Alert("Failed to post comment", "")
       ]_allVars
  /\ [](\A r \in Reqs :
          reqs[r].cfg.url = commentProduct.url => trim(closure[r].content) # <<>>)

\* a comment was posted, the call failed, and the draft is still in the box
C19_Witness ==
  \E r \in Reqs :
    /\ reqs[r].cfg.url = commentProduct.url
    /\ reqs[r].st = "rejected"
    /\ pdOut.alert = Alert("Failed to post comment", "")
    /\ newComment = closure[r].content
    /\ trim(newComment) # <<>>

\* C20: in HomeFeed, with a category other than 'All' selected the page
\* shows exactly the fetched products whose category name is the selected
\* one, in order; with 'All' selected it shows every fetched product once,
\* the first as the featured card and the others in the grid.
C20_CategoryFilter ==
  (~hfLoading /\ hfError = NULL) =>
     /\ selectedCategory = "All" =>
          /\ displayed = products
          /\ Len(products) > 0 => featured = <<products[1]>>
     /\ selectedCategory # "All" =>
          displayed = SelectSeq(products,
            LAMBDA item : item.category.value.name = selectedCategory)

\* C21: in HomeFeed a failed products or categories fetch ends fetchData
\* with loading false, the error message set and no products; Try Again
\* sends both requests again, and when both are answered ok the error is
\* null, loading is false and the products of the answer are shown (those
\* of the selected category, when one is selected).
C21_ErrorAndRetry ==
  [][ /\ \A r \in Reqs :
           FetchDataThrows(r)
             => /\ ~hfLoading'
                /\ hfError' = "Failed to load products. Please try again."
                /\ products' = <<>>
      /\ \A p \in Reqs, c \in Reqs :
           fetchData(p, c) /\ hfError # NULL
             => /\ reqs'[p].st = "inflight" /\ reqs'[p].cfg = getProducts
                /\ reqs'[c].st = "inflight" /\ reqs'[c].cfg = getCategories
                /\ hfLoading'
      /\ \A r \in Reqs, productsResponse \in ProductsResponses :
           FetchDataReturns(r, productsResponse)
             => /\ hfError' = NULL
                /\ ~hfLoading'
                /\ products' \in { x.results : x \in ProductsResponses }
                /\ displayed' =
                     IF selectedCategory = "All" THEN products'
                     ELSE SelectSeq(products',
                            LAMBDA item : item.category.value.name = selectedCategory)
    ]_allVars

\* C22: every request issued through the API client is resolved or rejected
\* to its caller in the end, whatever statuses the server answers, when
\* every HTTP call and every refresh call is answered.
C22_EveryRequestSettles ==
  \A r \in Reqs : (reqs[r].st = "inflight") ~> Settled(reqs[r])

\* no token in the service, none in the storage
NoCredentials ==
  /\ tokens = NullTokens
  /\ localStorage["access_token"] = NULL
  /\ localStorage["refresh_token"] = NULL

\* C23: once logout has cleared the tokens, the service holds none and the
\* storage holds neither 'access_token' nor 'refresh_token' until a login,
\* register or googleLogin succeeds, also when a refreshAccessToken call that
\* was in flight at the logout is answered afterwards.
C23_LogoutStays ==
  [][ (NoCredentials /\ ~\E c \in Calls, data \in AuthResponses : AuthOk(c, data))
        => NoCredentials' ]_vars

\* C24: the refresh token held changes only when a login, register or
\* googleLogin succeeds (and then comes from the response the user comes
\* from): a refreshAccessToken call started under an earlier session and
\* answered under a later one leaves the later session's refresh token.
C24_RefreshTokenOfLastLogin ==
  [][ (/\ tokens # NullTokens
       /\ tokens' # NullTokens
       /\ tokens'.refresh # tokens.refresh)
        => \E c \in Calls, data \in AuthResponses :
             AuthOk(c, data) /\ tokens' = data.tokens /\ user' = data.user ]_vars

\* C25: refreshAccessToken returns false without a request when no refresh
\* token is held; on a non-ok answer or a network error it returns false and
\* leaves tokens, user and storage as they are; on an ok answer it returns
\* true, stores the new access token and leaves the refresh token and the
\* user, in the service and in the storage, as they are.
C25_RefreshFrame ==
  [][ \A c \in RefreshCalls :
        /\ RefreshStart(c) /\ getRefreshToken(tokens) = NULL
             => rcalls'[c].st = "returned" /\ rcalls'[c].ret = FALSE
        /\ RefreshStart(c)
             => tokens' = tokens /\ user' = user /\ localStorage' = localStorage
        /\ \A why \in {"non-ok", "network error"} :
             RefreshFail(c, why)
               => /\ rcalls'[c].ret = FALSE
                  /\ tokens' = tokens /\ user' = user /\ localStorage' = localStorage
        /\ \A access \in AccessTokens :
             RefreshOk(c, access)
               => /\ rcalls'[c].ret = TRUE
                  /\ getAccessToken(tokens') = access
                  /\ localStorage'["access_token"] = access
                  /\ user' = user
                  /\ localStorage'["user"] = localStorage["user"]
                  /\ getRefreshToken(tokens') = getRefreshToken(tokens)
                  /\ localStorage'["refresh_token"] = localStorage["refresh_token"]
    ]_vars

\* C26: a refreshToken of the hook that gets true from the service returns
\* true and leaves the hook's user and isAuthenticated as they were; one that
\* gets false returns false and has logged out: no tokens, no user and no
\* stored key in the service, user null and isAuthenticated false in the hook.
ServiceCleared ==
  /\ tokens = NullTokens
  /\ user = NULL
  /\ \A k \in Keys : localStorage[k] = NULL

C26_HookRefresh ==
  [][ \A c \in RefreshCalls :
        (rcalls[c].st # "returned" /\ rcalls'[c].st = "returned") =>
          IF rcalls'[c].ret
          THEN /\ haReturned'[c] = "true"
               /\ haUser' = haUser
               /\ haIsAuthenticated' = haIsAuthenticated
          ELSE /\ haReturned'[c] = "false"
               /\ ServiceCleared'
               /\ haUser' = NULL
               /\ ~haIsAuthenticated' ]_allVars

\* a refresh that was posted with a refresh token came back false
C26_Witness ==
  \E c \in RefreshCalls :
    /\ rcalls[c].st = "returned"
    /\ rcalls[c].rt # NULL
    /\ ~rcalls[c].ret
    /\ haReturned[c] = "false"

\* C27: App never shows AddProduct or UserProfile while isLoggedIn is false;
\* setCurrentScreen('add-product') and setCurrentScreen('profile') without a
\* session end on 'login'; handleLogout ends on 'home' with isLoggedIn false,
\* user null and nothing left in the auth service.
C27_GuardedScreens ==
  /\ [](shown \in {"AddProduct", "UserProfile"} => isLoggedIn)
  /\ [][ /\ \A screen \in {"add-product", "profile"} :
              (setCurrentScreen(screen) /\ ~isLoggedIn) =>
                (currentScreen' = "login" /\ shown' = "LoginSignup")
         /\ handleLogout =>
              /\ currentScreen' = "home"
              /\ ~isLoggedIn'
              /\ appUser' = NULL
              /\ ServiceCleared' ]_allVars

\* after a sign-in and handleLogout, a guarded screen was selected
C27_Witness ==
  /\ \E c \in Calls : calls[c].st = "returned"
  /\ ~isLoggedIn
  /\ ServiceCleared
  /\ currentScreen = "login"

\* C28: in ProductDetail, as long as no upvote call has failed, every upvote
\* call that succeeds toggles isUpvoted, and upvote_count less the viewer's
\* own vote (1 if isUpvoted else 0) is what it was when the product was
\* fetched, also when a click comes while an earlier call is in flight.
OwnVote(flag) == IF flag THEN 1 ELSE 0

NoUpvoteFailed ==
  \A q \in Reqs : reqs[q].cfg.url = upvoteProduct.url => reqs[q].st # "rejected"

C28_UpvotesDoNotDrift ==
  /\ []((product.loaded /\ NoUpvoteFailed) =>
          product.upvote_count - OwnVote(isUpvoted) \in
            { p.upvote_count - OwnVote(p.is_upvoted) : p \in ProductResponses })
  /\ [][ \A r \in Reqs :
           (UpvoteReturns(r) /\ pdMounted /\ NoUpvoteFailed) =>
             isUpvoted' = ~isUpvoted ]_allVars

\* C29: once every fetchProducts call issued has completed, products and
\* error are what the call issued last came to (its products and no error
\* when it returned, no products and its message when it threw); and loading
\* is true exactly while a fetchProducts call is in flight.
C29_LastIssuedWins ==
  /\ (upIssued # <<>> /\ \A i \in 1..Len(upIssued) : upIssued[i].outcome # "pending") =>
       /\ upProducts = upIssued[Len(upIssued)].products
       /\ upError = upIssued[Len(upIssued)].error
  /\ upLoading <=> \E i \in 1..Len(upIssued) : upIssued[i].outcome = "pending"

====
